---- MODULE Spec2Model ----
(***************************************************************************)
(* kicad_qr_inserter.py: locate textbox markers on a KiCAD board, replace  *)
(* each by a QR code drawn as filled rectangles, save the board.           *)
(*                                                                         *)
(* Lengths.  pcbnew keeps coordinates as integers in internal units (IU,   *)
(* nanometres).  The script works in floating-point millimetres obtained   *)
(* by ToMM and converts back with FromMM, which truncates toward zero.     *)
(* A millimetre value is modelled exactly, as an integer number of 1/Sub   *)
(* IU; every division the script performs is exact in that representation, *)
(* so the only loss is the truncation in FromMM.  Binary floating-point    *)
(* rounding error is not modelled.                                         *)
(***************************************************************************)
EXTENDS Integers, Sequences, FiniteSets, TLC

VARIABLES
    args,               \* parsed command line: text_identifier, data, quiet
    board,              \* the loaded board: sequence of drawings
    pc,                 \* position in main
    location,           \* last return value of find_text_location
    qr_image,           \* last image returned by generate_qr_code
    replacement_count,
    file,               \* content of the output file, <<>> while not written
    saves,              \* number of SaveBoard calls
    stdout,             \* printed messages
    exit_status,        \* process exit status, -1 while running
    exception,          \* uncaught exception that ended the run, or "none"
    board0,             \* history: the board as loaded
    pre,                \* history: the board before the last call
    consumed,           \* history: deleted textboxes, in order
    last,               \* history: last operation performed
    h_pc, h_in, h_out   \* insert_qr_to_pcb applied to free inputs

vars == <<args, board, pc, location, qr_image, replacement_count, file, saves,
          stdout, exit_status, exception, board0, pre, consumed, last,
          h_pc, h_in, h_out>>

mainVars == <<args, board, pc, location, qr_image, replacement_count, file,
              saves, stdout, exit_status, exception, board0, pre, consumed,
              last>>

harnessVars == <<h_pc, h_in, h_out>>

----------------------------------------------------------------------------
(* Bounds and units *)

MaxDrawings == 3

IU_PER_MM == 1000000

Sub == 4 * 3 * 4

Abs(n) == IF n >= 0 THEN n ELSE -n

\* Python int(): truncation toward zero
Trunc(a, d) == IF a >= 0 THEN a \div d ELSE -((-a) \div d)

ToMM(iu) == iu * Sub

FromMM(mm) == Trunc(mm, Sub)

----------------------------------------------------------------------------
(* Board content *)

None == <<>>

imports == {"pcbnew", "qrcode", "Image", "argparse"}

Layers == {"F_Cu", "F_SilkS", "Edge_Cuts",
           "B_Cu", "B_Adhes", "B_Paste", "B_SilkS", "B_Mask", "B_Fab", "B_CrtYd"}

Drawing(kind, text, x, y, end_x, end_y, layer) ==
    [kind |-> kind, text |-> text, x |-> x, y |-> y,
     end_x |-> end_x, end_y |-> end_y, layer |-> layer,
     width |-> 0, filled |-> FALSE]

\* boxes in IU: square, square at negative odd coordinates, wide, tall
Boxes == { <<0, 0, IU_PER_MM, IU_PER_MM>>,
           <<-1500001, -500001, -500000, 500000>>,
           <<IU_PER_MM, 0, 3 * IU_PER_MM, IU_PER_MM>>,
           <<1, 500000, IU_PER_MM + 2, 2500000>> }

Identifiers == {"SN"}

Drawings ==
    { Drawing("PCB_TEXTBOX", "SN", 0, 0, IU_PER_MM, IU_PER_MM, "F_Cu"),
      Drawing("PCB_TEXTBOX", "SN", -1500001, -500001, -500000, 500000, "B_SilkS"),
      Drawing("PCB_TEXTBOX", "SN", IU_PER_MM, 0, 3 * IU_PER_MM, IU_PER_MM, "B_Cu"),
      Drawing("PCB_TEXTBOX", "SN", 1, 500000, IU_PER_MM + 2, 2500000, "F_SilkS"),
      Drawing("PCB_TEXTBOX", "REF", 0, 0, IU_PER_MM, IU_PER_MM, "F_SilkS"),
      Drawing("PCB_TEXT", "SN", 0, 0, IU_PER_MM, IU_PER_MM, "F_SilkS"),
      Drawing("PCB_SHAPE", "", 0, 0, 3 * IU_PER_MM, 3 * IU_PER_MM, "Edge_Cuts") }

Boards == UNION { [1..n -> Drawings] : n \in 0..MaxDrawings }

RemoveAt(s, i) == SubSeq(s, 1, i - 1) \o SubSeq(s, i + 1, Len(s))

\* a plausible slip: removes every drawing equal to the matched one
DeleteStructure_all(b, i) == SelectSeq(b, LAMBDA d : d # b[i])

DeleteStructure(b, i) == RemoveAt(b, i)

----------------------------------------------------------------------------
(* find_text_location *)

\* a plausible slip: the text comparison of line 18 is dropped
IsMatch_anytext(d, text_identifier) == d.kind = "PCB_TEXTBOX"

IsMatch(d, text_identifier) ==
    d.kind = "PCB_TEXTBOX" /\ d.text = text_identifier

FirstMatch(b, text_identifier) ==
    LET hits == { i \in 1..Len(b) : IsMatch(b[i], text_identifier) }
    IN  IF hits = {} THEN 0 ELSE CHOOSE i \in hits : \A j \in hits : i <= j

\* a plausible slip: the first drawing is deleted instead of the matched one
find_text_location_first(b, text_identifier) ==
    LET i == FirstMatch(b, text_identifier)
    IN  IF i = 0
        THEN [ret |-> None, board |-> b, out |-> <<>>]
        ELSE LET d == b[i]
                 x == ToMM(d.x)
                 y == ToMM(d.y)
                 end_x == ToMM(d.end_x)
                 end_y == ToMM(d.end_y)
             IN  [ret |-> << (x + end_x) \div 2, (y + end_y) \div 2,
                             (end_x - x + end_y - y) \div 2, d.layer >>,
                  board |-> DeleteStructure(b, 1),
                  out |-> IF end_x - x # end_y - y
                          THEN << <<"Warning! Textbox height != width">> >>
                          ELSE <<>>]

find_text_location(b, text_identifier) ==
    LET i == FirstMatch(b, text_identifier)
    IN  IF i = 0
        THEN [ret |-> None, board |-> b, out |-> <<>>]
        ELSE LET d == b[i]
                 x == ToMM(d.x)
                 y == ToMM(d.y)
                 end_x == ToMM(d.end_x)
                 end_y == ToMM(d.end_y)
             IN  [ret |-> << (x + end_x) \div 2, (y + end_y) \div 2,
                             (end_x - x + end_y - y) \div 2, d.layer >>,
                  board |-> DeleteStructure(b, i),
                  out |-> IF end_x - x # end_y - y
                          THEN << <<"Warning! Textbox height != width">> >>
                          ELSE <<>>]

----------------------------------------------------------------------------
(* is_backside_layer *)

backside_layers ==
    {"B_Cu", "B_Adhes", "B_Paste", "B_SilkS", "B_Mask", "B_Fab", "B_CrtYd"}

\* a plausible slip: only the copper layer is taken for back-side
is_backside_layer_copper(layer) == layer = "B_Cu"

is_backside_layer(layer) == layer \in backside_layers

----------------------------------------------------------------------------
(* generate_qr_code: the encoder is the qrcode library.  An image is a     *)
(* square grid of pixels, 0 = black, 255 = white.  The encoder is a fixed  *)
(* function of the data; the finder patterns of a QR symbol make its       *)
(* top-left, top-right and bottom-left corner modules black.  Data that    *)
(* fits no symbol version makes the library raise DataOverflowError.       *)

Cells(n) == (0..(n - 1)) \X (0..(n - 1))

Image(n, black) ==
    [size |-> n, pixels |-> [p \in Cells(n) |-> IF p \in black THEN 0 ELSE 255]]

NoImage == [size |-> 0, pixels |-> <<>>]

Data == {"HELLO", "SN-0042", "OVERSIZE"}

Matrix(data) ==
    CASE data = "HELLO"   -> Image(3, {<<0,0>>, <<2,0>>, <<0,2>>, <<1,0>>, <<0,1>>})
      [] data = "SN-0042" -> Image(4, {<<0,0>>, <<3,0>>, <<0,3>>, <<1,1>>, <<2,3>>, <<3,1>>})
      [] OTHER            -> NoImage

\* the payload exceeds the capacity of the largest symbol version
Overflows(data) == data = "OVERSIZE"

\* a plausible slip: an oversize payload is cut down instead of refused
generate_qr_code_truncating(data) ==
    IF Overflows(data)
    THEN [raised |-> "none", img |-> Matrix("HELLO")]
    ELSE [raised |-> "none", img |-> Matrix(data)]

generate_qr_code(data) ==
    IF Overflows(data)
    THEN [raised |-> "DataOverflowError", img |-> NoImage]
    ELSE [raised |-> "none", img |-> Matrix(data)]

----------------------------------------------------------------------------
(* insert_qr_to_pcb *)

FLIP_LEFT_RIGHT(img) ==
    [size |-> img.size,
     pixels |-> [p \in Cells(img.size) |->
                    img.pixels[<<img.size - 1 - p[1], p[2]>>]]]

\* for y in range(height): for x in range(width)
ScanOrder(n) == [k \in 1..(n * n) |-> <<(k - 1) % n, (k - 1) \div n>>]

rect_shape(p, start_x, start_y, pixel_size, layer) ==
    [kind |-> "PCB_SHAPE", text |-> "",
     x |-> FromMM(start_x + p[1] * pixel_size),
     y |-> FromMM(start_y + p[2] * pixel_size),
     end_x |-> FromMM(start_x + (p[1] + 1) * pixel_size),
     end_y |-> FromMM(start_y + (p[2] + 1) * pixel_size),
     layer |-> layer, width |-> FromMM(0), filled |-> TRUE]

\* a plausible slip: the test of line 95 is dropped
insert_qr_to_pcb_allpixels(img, b, start_x, start_y, pixel_size, layer) ==
    LET order == ScanOrder(img.size)
    IN  b \o [k \in 1..Len(order) |->
                rect_shape(order[k], start_x, start_y, pixel_size, layer)]

insert_qr_to_pcb(img, b, start_x, start_y, pixel_size, layer) ==
    LET flipped == IF is_backside_layer(layer) THEN FLIP_LEFT_RIGHT(img) ELSE img
        black == SelectSeq(ScanOrder(img.size), LAMBDA p : flipped.pixels[p] = 0)
    IN  b \o [k \in 1..Len(black) |->
                rect_shape(black[k], start_x, start_y, pixel_size, layer)]

----------------------------------------------------------------------------
(* main (the second definition, lines 143-181, is the one that runs) *)

PixelSize(width, img) == width \div img.size

\* a plausible slip: the pattern starts at the marker centre
RenderOrigin_corner(c, img, pixel_size) == c

RenderOrigin(c, img, pixel_size) == c - (img.size * pixel_size) \div 2

print_unless_quiet(msg) == IF args.quiet THEN stdout ELSE Append(stdout, msg)

Init ==
    /\ args \in [text_identifier : Identifiers, data : Data, quiet : BOOLEAN]
    /\ board \in Boards
    /\ board0 = board
    /\ pc = "locate"
    /\ location = None
    /\ qr_image = NoImage
    /\ replacement_count = 0
    /\ file = <<>>
    /\ saves = 0
    /\ stdout = <<>>
    /\ exit_status = -1
    /\ exception = "none"
    /\ pre = board
    /\ consumed = <<>>
    /\ last = "load"
    /\ h_pc = "idle"
    /\ h_in = [img |-> NoImage, board |-> <<>>, box |-> <<0, 0, 0, 0>>, layer |-> "F_Cu"]
    /\ h_out = <<>>

\* lines 156-162 and 169-170
Locate ==
    /\ pc = "locate"
    /\ LET r == find_text_location(board, args.text_identifier)
           i == FirstMatch(board, args.text_identifier)
       IN  /\ location' = r.ret
           /\ board' = r.board
           /\ pre' = board
           /\ last' = "locate"
           /\ IF r.ret # None
              THEN /\ consumed' = Append(consumed, board[i])
                   /\ stdout' = IF args.quiet THEN stdout \o r.out
                                ELSE (stdout \o r.out) \o
                                     << <<"Found textbox", r.ret[1], r.ret[2]>> >>
                   /\ pc' = "generate"
              ELSE /\ consumed' = consumed
                   /\ stdout' = stdout \o r.out
                   /\ pc' = "save"
    /\ UNCHANGED <<args, qr_image, replacement_count, file, saves,
                   exit_status, exception, board0>>
    /\ UNCHANGED harnessVars

\* line 164
Generate ==
    /\ pc = "generate"
    /\ LET r == generate_qr_code(args.data)
       IN  IF r.raised # "none"
           THEN /\ exception' = r.raised
                /\ exit_status' = 1
                /\ pc' = "terminated"
                /\ qr_image' = qr_image
           ELSE /\ qr_image' = r.img
                /\ pc' = "insert"
                /\ UNCHANGED <<exception, exit_status>>
    /\ last' = "generate"
    /\ UNCHANGED <<args, board, location, replacement_count, file, saves,
                   stdout, board0, pre, consumed>>
    /\ UNCHANGED harnessVars

\* a plausible slip: the board is written inside the loop as well
Insert_saving ==
    /\ pc = "insert"
    /\ LET pixel_size == PixelSize(location[3], qr_image)
       IN  board' = insert_qr_to_pcb(qr_image, board,
                        RenderOrigin(location[1], qr_image, pixel_size),
                        RenderOrigin(location[2], qr_image, pixel_size),
                        pixel_size, location[4])
    /\ replacement_count' = replacement_count + 1
    /\ file' = board'
    /\ saves' = saves + 1
    /\ pre' = board
    /\ last' = "insert"
    /\ pc' = "locate"
    /\ UNCHANGED <<args, location, qr_image, stdout,
                   exit_status, exception, board0, consumed>>
    /\ UNCHANGED harnessVars

\* lines 165-168
Insert ==
    /\ pc = "insert"
    /\ LET pixel_size == PixelSize(location[3], qr_image)
       IN  board' = insert_qr_to_pcb(qr_image, board,
                        RenderOrigin(location[1], qr_image, pixel_size),
                        RenderOrigin(location[2], qr_image, pixel_size),
                        pixel_size, location[4])
    /\ replacement_count' = replacement_count + 1
    /\ pre' = board
    /\ last' = "insert"
    /\ pc' = "locate"
    /\ UNCHANGED <<args, location, qr_image, file, saves, stdout,
                   exit_status, exception, board0, consumed>>
    /\ UNCHANGED harnessVars

\* lines 172-176
Save ==
    /\ pc = "save"
    /\ file' = board
    /\ saves' = saves + 1
    /\ stdout' = print_unless_quiet(<<"replacements made", replacement_count>>)
    /\ last' = "save"
    /\ pc' = "check"
    /\ UNCHANGED <<args, board, location, qr_image, replacement_count,
                   exit_status, exception, board0, pre, consumed>>
    /\ UNCHANGED harnessVars

\* lines 178-181 and the return to line 185; "sys" is not among the imports,
\* so evaluating sys.exit raises NameError, which ends the process with a
\* traceback and status 1
Exit ==
    /\ pc = "check"
    /\ IF replacement_count = 0
       THEN /\ stdout' = print_unless_quiet(<<"No matches found">>)
            /\ exit_status' = 1
            /\ exception' = IF "sys" \in imports THEN "none" ELSE "NameError"
       ELSE /\ stdout' = stdout
            /\ exit_status' = 0
            /\ exception' = "none"
    /\ last' = "exit"
    /\ pc' = "terminated"
    /\ UNCHANGED <<args, board, location, qr_image, replacement_count, file,
                   saves, board0, pre, consumed>>
    /\ UNCHANGED harnessVars

Next == Locate \/ Generate \/ Insert \/ Save \/ Exit

Spec == Init /\ [][Next]_vars

\* main runs to its end: nothing in it waits
FairSpec == Spec /\ WF_vars(Next)

----------------------------------------------------------------------------
(* insert_qr_to_pcb on free inputs: any bitmap of the widths below, any    *)
(* layer, a marker box, a board that already holds drawings.  The marker   *)
(* is located and the bitmap placed with the arithmetic of main.           *)

Widths == {2, 3}

Bitmaps ==
    UNION { { [size |-> n, pixels |-> f] : f \in [Cells(n) -> {0, 255}] }
            : n \in Widths }

HBoards ==
    { <<>>,
      << Drawing("PCB_SHAPE", "", 0, 0, 3 * IU_PER_MM, 3 * IU_PER_MM, "Edge_Cuts"),
         Drawing("PCB_TEXTBOX", "REF", 0, 0, IU_PER_MM, IU_PER_MM, "F_SilkS") >> }

HMarker(in) ==
    Drawing("PCB_TEXTBOX", "SN", in.box[1], in.box[2], in.box[3], in.box[4], in.layer)

HInit ==
    /\ args = [text_identifier |-> "SN", data |-> "HELLO", quiet |-> TRUE]
    /\ board = <<>>
    /\ board0 = <<>>
    /\ pc = "terminated"
    /\ location = None
    /\ qr_image = NoImage
    /\ replacement_count = 0
    /\ file = <<>>
    /\ saves = 0
    /\ stdout = <<>>
    /\ exit_status = -1
    /\ exception = "none"
    /\ pre = <<>>
    /\ consumed = <<>>
    /\ last = "load"
    /\ h_pc = "ready"
    /\ h_in \in [img : Bitmaps, board : HBoards, box : Boxes, layer : Layers]
    /\ h_out = <<>>

HRender ==
    /\ h_pc = "ready"
    /\ LET r == find_text_location(Append(h_in.board, HMarker(h_in)), "SN")
           pixel_size == PixelSize(r.ret[3], h_in.img)
       IN  h_out' = insert_qr_to_pcb(h_in.img, r.board,
                        RenderOrigin(r.ret[1], h_in.img, pixel_size),
                        RenderOrigin(r.ret[2], h_in.img, pixel_size),
                        pixel_size, r.ret[4])
    /\ h_pc' = "done"
    /\ UNCHANGED h_in
    /\ UNCHANGED mainVars

HNext == HRender

SpecRender == HInit /\ [][HNext]_vars

----------------------------------------------------------------------------
(* Properties *)

IsTextbox(d, id) == d.kind = "PCB_TEXTBOX" /\ d.text = id

HasText(d, id) == d.text = id

Markers0 == SelectSeq(board0, LAMBDA d : IsTextbox(d, args.text_identifier))

Rest0 == SelectSeq(board0, LAMBDA d : ~IsTextbox(d, args.text_identifier))

BlackCount(img) == Cardinality({ p \in Cells(img.size) : img.pixels[p] = 0 })

IsRect(d) == d.kind = "PCB_SHAPE" /\ d.filled /\ d.width = 0 /\ d.text = ""

Span(d) == <<d.x, d.y, d.end_x, d.end_y>>

\* drawings appended by the last insert_qr_to_pcb of main
Added == SubSeq(board, Len(pre) + 1, Len(board))

LastMarker == consumed[Len(consumed)]

SetMin(S) == CHOOSE a \in S : \A b \in S : a <= b

SetMax(S) == CHOOSE a \in S : \A b \in S : a >= b

\* C1: with data that encodes, a run on a board holding n textboxes with the
\* identifier leaves the loop after exactly n successful locates; when the
\* board is saved no such textbox is left, the other drawings are untouched,
\* the i-th marker has been replaced by one pattern of rectangles on its own
\* layer, and the reported count is n; and the run does reach its end.
C1_AtSave ==
    (pc \in {"save", "check", "terminated"} /\ ~Overflows(args.data)) =>
        LET n == Len(Markers0)
            k == BlackCount(qr_image)
            keep == Len(Rest0)
        IN  /\ replacement_count = n
            /\ consumed = Markers0
            /\ \A i \in 1..Len(board) : ~IsTextbox(board[i], args.text_identifier)
            /\ Len(board) = keep + n * k
            /\ SubSeq(board, 1, keep) = Rest0
            /\ \A i \in 1..n : \A j \in 1..k :
                  /\ IsRect(board[keep + (i - 1) * k + j])
                  /\ board[keep + (i - 1) * k + j].layer = Markers0[i].layer
            /\ n > 0 => k > 0
            /\ pc # "save" =>
                  /\ file = board
                  /\ ~args.quiet =>
                        \E m \in 1..Len(stdout) : stdout[m] = <<"replacements made", n>>

C1_RepeatReplacement ==
    /\ []C1_AtSave
    /\ (~Overflows(args.data)) ~> (pc = "terminated" /\ exception # "DataOverflowError")

C1_Witness ==
    /\ pc = "terminated"
    /\ replacement_count = MaxDrawings
    /\ exit_status = 0
    /\ Len(board) > Len(board0)

\* C2 as stated: after a locate on a board with exactly one drawing whose
\* text is the identifier, the result is not None and no drawing with that
\* text is left.
C2_AnyDrawing ==
    (last = "locate" /\
     Cardinality({ i \in 1..Len(pre) : HasText(pre[i], args.text_identifier) }) = 1) =>
        /\ location # None
        /\ \A i \in 1..Len(board) : ~HasText(board[i], args.text_identifier)

\* C2 amended: after a locate on a board with exactly one textbox whose text
\* is the identifier, the result is not None and no textbox with that text is
\* left; the other drawings are all still there.
C2_Textbox ==
    (last = "locate" /\
     Cardinality({ i \in 1..Len(pre) : IsTextbox(pre[i], args.text_identifier) }) = 1) =>
        /\ location # None
        /\ \A i \in 1..Len(board) : ~IsTextbox(board[i], args.text_identifier)
        /\ board = SelectSeq(pre, LAMBDA d : ~IsTextbox(d, args.text_identifier))

C2_Witness ==
    /\ last = "locate"
    /\ Cardinality({ i \in 1..Len(pre) : IsTextbox(pre[i], args.text_identifier) }) = 1
    /\ Len(pre) >= 2
    /\ ~IsTextbox(pre[1], args.text_identifier)
    /\ location # None

\* C3: after a locate on a board with no drawing whose text is the
\* identifier, the result is None and the board is what it was.
C3_NotFoundNoEffect ==
    (last = "locate" /\
     \A i \in 1..Len(pre) : ~HasText(pre[i], args.text_identifier)) =>
        /\ location = None
        /\ board = pre

C3_Witness ==
    /\ last = "locate"
    /\ \A i \in 1..Len(pre) : ~HasText(pre[i], args.text_identifier)
    /\ \E i \in 1..Len(pre) : pre[i].kind = "PCB_TEXTBOX"
    /\ location = None

\* C4 as stated: a run that reaches the end of main exits with status 0 when
\* it replaced at least one marker and with status 1 when it replaced none,
\* and in the latter case it ends normally (no uncaught exception) with the
\* message printed unless quiet.
C4_ExitStatus ==
    (pc = "terminated" /\ last = "exit") =>
        /\ replacement_count >= 1 => (exit_status = 0 /\ exception = "none")
        /\ replacement_count = 0 =>
              /\ exit_status = 1
              /\ exception = "none"
              /\ ~args.quiet =>
                    \E m \in 1..Len(stdout) : stdout[m] = <<"No matches found">>

\* C5: the board is never saved twice; a run that leaves the loop has saved
\* exactly once, what it saved is the board with every removal and insertion
\* done, and nothing changes the board after the save; a run that finds no
\* marker, or whose data encodes, does save.
C5_SavedState ==
    /\ saves <= 1
    /\ last \in {"save", "exit"} => (saves = 1 /\ file = board)
    /\ last \notin {"save", "exit"} => saves = 0

C5_SaveOnceAtEnd ==
    /\ []C5_SavedState
    /\ [][saves >= 1 => (board' = board /\ file' = file)]_vars
    /\ (Len(Markers0) = 0 \/ ~Overflows(args.data)) ~> (saves = 1)

C5_Witness ==
    /\ saves = 1
    /\ replacement_count >= 2
    /\ file = board
    /\ Len(board) > Len(board0)

\* C6 as stated: when the data cannot be encoded the board is never saved and
\* the run ends with the encoder's error, whatever the board.
C6_AnyBoard ==
    Overflows(args.data) =>
        /\ saves = 0
        /\ pc = "terminated" => exception = "DataOverflowError"

\* C6 amended: when the data cannot be encoded and the board holds at least
\* one textbox with the identifier, the run ends with the encoder's error at
\* the first replacement and the board is never saved; on a board without
\* such a textbox the encoder is not called and no encoder error occurs.
C6_WhenMarkerFound ==
    Overflows(args.data) =>
        /\ Len(Markers0) >= 1 =>
              /\ saves = 0
              /\ replacement_count = 0
              /\ pc \notin {"insert", "save", "check"}
              /\ pc = "terminated" =>
                    (exception = "DataOverflowError" /\ exit_status # 0)
        /\ Len(Markers0) = 0 =>
              (pc # "generate" /\ exception # "DataOverflowError")

C6_Witness ==
    /\ Overflows(args.data)
    /\ pc = "terminated"
    /\ exception = "DataOverflowError"
    /\ saves = 0
    /\ Len(Markers0) >= 2

----------------------------------------------------------------------------
(* Properties of insert_qr_to_pcb, on the free inputs *)

HAdded == SubSeq(h_out, Len(h_in.board) + 1, Len(h_out))

\* the bitmap as drawn: flipped left-right on the seven back-side layers
BackSide == {"B_Cu", "B_Adhes", "B_Paste", "B_SilkS", "B_Mask", "B_Fab", "B_CrtYd"}

Drawn(img, layer) ==
    IF layer \in BackSide
    THEN [size |-> img.size,
          pixels |-> [p \in Cells(img.size) |->
                         img.pixels[<<img.size - 1 - p[1], p[2]>>]]]
    ELSE img

\* the cell of pixel p of an n x n bitmap laid over the marker box, in
\* millimetres (units of 1/Sub IU): the box centre is the centre of the grid,
\* a cell is (width + height) / 2n wide
CellsMm(box, n) ==
    LET ps == ((box[3] - box[1] + box[4] - box[2]) * Sub) \div (2 * n)
        sx == ((box[1] + box[3]) * Sub) \div 2 - (n * ps) \div 2
        sy == ((box[2] + box[4]) * Sub) \div 2 - (n * ps) \div 2
    IN  [p \in Cells(n) |->
            << sx + p[1] * ps, sy + p[2] * ps,
               sx + (p[1] + 1) * ps, sy + (p[2] + 1) * ps >>]

\* a millimetre rectangle as stored on the board, in whole internal units
Stored(r) ==
    << Trunc(r[1], Sub), Trunc(r[2], Sub), Trunc(r[3], Sub), Trunc(r[4], Sub) >>

CellSpansOf(box, n) == [p \in Cells(n) |-> Stored(CellsMm(box, n)[p])]

\* C7: one call adds exactly as many rectangles as the (possibly mirrored)
\* bitmap has black pixels, each a filled rectangle on the given layer over
\* the cell of a black pixel, none over a white pixel, and the drawings the
\* board held before are all still there, unchanged and in place.
C7_PixelCountExact ==
    h_pc = "done" =>
        LET img == Drawn(h_in.img, h_in.layer)
            on == { p \in Cells(img.size) : img.pixels[p] = 0 }
            off == Cells(img.size) \ on
            CellSpan == CellSpansOf(h_in.box, img.size)
        IN  /\ Len(h_out) = Len(h_in.board) + Cardinality(on)
            /\ SubSeq(h_out, 1, Len(h_in.board)) = h_in.board
            /\ \A i \in 1..Len(HAdded) :
                  /\ IsRect(HAdded[i])
                  /\ HAdded[i].layer = h_in.layer
                  /\ \E p \in on : Span(HAdded[i]) = CellSpan[p]
                  /\ \A p \in off : Span(HAdded[i]) # CellSpan[p]
            /\ \A p \in on : \E i \in 1..Len(HAdded) : Span(HAdded[i]) = CellSpan[p]

C7_Witness ==
    /\ h_pc = "done"
    /\ Len(h_in.board) > 0
    /\ BlackCount(h_in.img) \in 1..(h_in.img.size * h_in.img.size - 1)
    /\ Len(h_out) = Len(h_in.board) + BlackCount(h_in.img)

\* C8: on each of the seven back-side layers the rectangles drawn are the
\* mirror image, about the vertical centre line of the rendered area (the
\* centre line of the marker), of the rectangles of the unflipped bitmap;
\* on every other layer they are the rectangles of the unflipped bitmap.
\* Rectangles are placed in millimetres and stored in whole internal units:
\* a drawn rectangle is the stored form of the mirrored millimetre
\* rectangle, and so its coordinates are within one internal unit of the
\* mirror image of the stored unflipped rectangle.
BlackCells == { q \in Cells(h_in.img.size) : h_in.img.pixels[q] = 0 }

UnflippedMm == { CellsMm(h_in.box, h_in.img.size)[p] : p \in BlackCells }

Unflipped == { Stored(r) : r \in UnflippedMm }

MirrorMm(r) ==
    LET axis2 == (h_in.box[1] + h_in.box[3]) * Sub
    IN  << axis2 - r[3], r[2], axis2 - r[1], r[4] >>

IsMirror(s, t) ==
    LET axis2 == h_in.box[1] + h_in.box[3]
    IN  /\ t[2] = s[2]
        /\ t[4] = s[4]
        /\ Abs(t[1] - (axis2 - s[3])) <= 1
        /\ Abs(t[3] - (axis2 - s[1])) <= 1

C8_Mirroring ==
    h_pc = "done" =>
        LET drawn == { Span(HAdded[i]) : i \in 1..Len(HAdded) }
        IN  IF h_in.layer \in BackSide
            THEN /\ drawn = { Stored(MirrorMm(r)) : r \in UnflippedMm }
                 /\ Cardinality(drawn) = Cardinality(Unflipped)
                 /\ \A s \in Unflipped : \E t \in drawn : IsMirror(s, t)
                 /\ \A t \in drawn : \E s \in Unflipped : IsMirror(s, t)
            ELSE drawn = Unflipped

C8_Witness ==
    /\ h_pc = "done"
    /\ h_in.layer = "B_Fab"
    /\ h_in.img.size = 3
    /\ h_in.img.pixels[<<0, 0>>] = 0
    /\ h_in.img.pixels[<<2, 0>>] = 255
    /\ \E i \in 1..Len(HAdded) : Span(HAdded[i]) = CellSpansOf(h_in.box, 3)[<<2, 0>>]

----------------------------------------------------------------------------
(* Placement of the pattern on the marker, in the runs of main *)

BoxLoX == SetMin({ Added[i].x : i \in 1..Len(Added) })

BoxHiX == SetMax({ Added[i].end_x : i \in 1..Len(Added) })

BoxLoY == SetMin({ Added[i].y : i \in 1..Len(Added) })

BoxHiY == SetMax({ Added[i].end_y : i \in 1..Len(Added) })

\* C9: after each replacement, the centre of the bounding box of the
\* rectangles drawn for the marker is within half a pixel (half of marker
\* size / bitmap width) of the centre of the marker's box, on both axes.
C9_Centering ==
    (last = "insert") =>
        LET m == LastMarker
            twoSize == (m.end_x - m.x) + (m.end_y - m.y)
            n == qr_image.size
        IN  /\ Len(Added) > 0
            /\ 2 * n * Abs((BoxLoX + BoxHiX) - (m.x + m.end_x)) <= twoSize
            /\ 2 * n * Abs((BoxLoY + BoxHiY) - (m.y + m.end_y)) <= twoSize

C9_Witness ==
    /\ last = "insert"
    /\ LastMarker.end_x - LastMarker.x # LastMarker.end_y - LastMarker.y
    /\ LastMarker.x + LastMarker.end_x # 2 * ((LastMarker.x + LastMarker.end_x) \div 2)
    /\ Len(Added) > 0

\* C10 as stated: every rectangle drawn for a marker lies inside the
\* marker's box, from its top-left to its bottom-right corner, on both axes.
C10_FitsFootprint ==
    (last = "insert") =>
        \A i \in 1..Len(Added) :
            /\ LastMarker.x <= Added[i].x
            /\ Added[i].end_x <= LastMarker.end_x
            /\ LastMarker.y <= Added[i].y
            /\ Added[i].end_y <= LastMarker.end_y

====
